---- MODULE Spec2Model ----
(***************************************************************************)
(* A model of boardgamegeek/utils.py and boardgamegeek/collection.py:      *)
(*   - get_parsed_xml_response, the retry loop around one HTTP GET;        *)
(*   - DictObject, attribute access backed by a dictionary;                *)
(*   - Collection, the appendable and iterable list of raw records.        *)
(* The three parts share no state; each has its own next-state relation    *)
(* and its own specification (SpecFetch, SpecColl, SpecAttr).              *)
(***************************************************************************)
EXTENDS Integers, Sequences, FiniteSets, TLC

VARIABLES
    \* ---- get_parsed_xml_response: one call
    pc,           \* "idle" before the call, "loop" at the while test, "done" after
    args,         \* the arguments the call was made with
    retries,      \* the parameter retries
    retr,         \* the local retr
    timeout,      \* the parameter timeout, rebound by timeout *= 2.5
    retry_delay,  \* the parameter retry_delay, rebound by retry_delay *= 1.5
    trace,        \* the I/O the call performed: session.get and time.sleep, in order
    outcome,      \* "none", "root_elem" (returned) or the name of the exception raised
    \* ---- Collection / DictObject
    heap,         \* the list objects, in order of creation: sequences of raw records
    data,         \* the caller's mapping, handed to Collection(data) and DictObject(data)
    colls,        \* the Collections constructed so far: id -> its _data dictionary
    appends,      \* collection id -> number of add_game calls made on it
    built,        \* collection id -> len() of the Collection right after construction
    gens,         \* the generators iteritems() returned, in order of creation
    \* ---- attribute reads
    lastRead,     \* the last attribute read: object, name, result
    \* ---- the pure helpers of utils.py
    xml_elem,     \* the element handed to the xml_subelement_* functions, or XNone
    lastCall,     \* the last xml_subelement_* call: function, arguments, result
    uri,          \* the URI handed to get_cache_session_from_uri
    session       \* what get_cache_session_from_uri(uri) gave: a session or an error

fetchVars == <<pc, args, retries, retr, timeout, retry_delay, trace, outcome>>
collVars == <<heap, data, colls, appends, built, gens>>
attrVars == <<lastRead>>
pureVars == <<xml_elem, lastCall, uri, session>>
vars == <<fetchVars, collVars, attrVars, pureVars>>

(***************************************************************************)
(* Bounds                                                                  *)
(***************************************************************************)
MaxRetries == 3      \* retries ranges over 0..MaxRetries

(***************************************************************************)
(* Numbers. timeout and retry_delay are Python floats; every value the     *)
(* model reaches is a small dyadic rational, which a float holds exactly,  *)
(* so a float is modelled by an exact fraction <<numerator, denominator>>. *)
(***************************************************************************)
Num(n) == <<n, 1>>
FloatMul(x, m) == <<x[1] * m[1], x[2] * m[2]>>
FloatEq(x, y) == x[1] * y[2] = y[1] * x[2]

DefaultTimeout == 15
DefaultRetryDelay == 5
DelayFactor == <<3, 2>>      \* retry_delay *= 1.5
TimeoutFactor == <<5, 2>>    \* timeout *= 2.5

Timeouts == {DefaultTimeout, 2}
RetryDelays == {DefaultRetryDelay, 2}

(***************************************************************************)
(* What session.get can do: return a response or raise.                    *)
(***************************************************************************)
None == "<None>"
StatusCodes == {200, 202, 503, 404}
ContentTypes ==
    {"text/xml", "text/xml; charset=utf-8", "application/xml", "application/json", None}
WellFormed == "<items total=\"0\"/>"
Malformed == "<items total="
Bodies == {WellFormed, Malformed}

Responses ==
    [kind : {"response"}, status_code : StatusCodes, content_type : ContentTypes,
     text : Bodies]
Raised(e) == [kind |-> "raise", exc |-> e]
ServerOutcomes == Responses \cup {Raised("Timeout"), Raised("ConnectionError")}

GetEvent(t, o) == [ev |-> "get", timeout |-> t, result |-> o]
SleepEvent(d) == [ev |-> "sleep", secs |-> d]

\* str.startswith
StartsWith(s, prefix) ==
    /\ Len(s) >= Len(prefix)
    /\ SubSeq(s, 1, Len(prefix)) = prefix

\* ET.fromstring: the root element, or ETParseError
ETfromstring(xml) ==
    IF xml = WellFormed THEN [raises |-> None, root |-> "items"]
    ELSE [raises |-> "ETParseError", root |-> None]

\* ExceptClauses without the last clause, `except Exception`
ExceptClauses_noCatchAll(exc) ==
    IF exc = "ETParseError" THEN "BoardGameGeekAPIError" ELSE exc

\* ExceptClauses without the clause that re-raises the library's own errors
ExceptClauses_noReraise(exc) == "BoardGameGeekAPIError"

\* The except clauses of the try statement, in order, for an exception raised
\* in its body that is not requests.exceptions.Timeout: the exception that
\* leaves the function.
ExceptClauses(exc) ==
    IF exc = "ETParseError" THEN "BoardGameGeekAPIError"
    ELSE IF exc \in {"BoardGameGeekAPIRetryError", "BoardGameGeekAPINonXMLError",
                     "BoardGameGeekTimeoutError"} THEN exc
    ELSE "BoardGameGeekAPIError"

\* The function is left: by return (value "root_elem") or by an exception.
Leave(how, newTrace) ==
    /\ pc' = "done"
    /\ outcome' = how
    /\ trace' = newTrace
    /\ UNCHANGED <<args, retries, retr, timeout, retry_delay>>

InLoop == pc = "loop" /\ retr >= 0

\* def get_parsed_xml_response(..., timeout=15, retries=3, retry_delay=5): retr = retries - 1
Call(t, n, d) ==
    /\ pc = "idle"
    /\ pc' = "loop"
    /\ args' = [timeout |-> Num(t), retries |-> n, retry_delay |-> Num(d)]
    /\ retries' = n
    /\ retr' = n - 1
    /\ timeout' = Num(t)
    /\ retry_delay' = Num(d)
    /\ UNCHANGED <<trace, outcome>>
    /\ UNCHANGED <<collVars, attrVars, pureVars>>

\* One pass of the loop body in which session.get returns status 202.
Got202(r) ==
    /\ InLoop
    /\ r.status_code = 202
    /\ LET got == Append(trace, GetEvent(timeout, r)) IN
       IF retries = 0 THEN Leave(ExceptClauses("BoardGameGeekAPIRetryError"), got)
       ELSE IF retr = 0 THEN Leave(ExceptClauses("BoardGameGeekAPIRetryError"), got)
       ELSE /\ retr' = retr - 1
            /\ trace' = Append(got, SleepEvent(retry_delay))
            /\ retry_delay' = FloatMul(retry_delay, DelayFactor)
            /\ UNCHANGED <<pc, args, retries, timeout, outcome>>
    /\ UNCHANGED <<collVars, attrVars, pureVars>>

\* Variant: a 503 waits and asks again without taking from the retry budget.
Got503_ownBudget(r) ==
    /\ InLoop
    /\ r.status_code = 503
    /\ trace' = Append(Append(trace, GetEvent(timeout, r)), SleepEvent(retry_delay))
    /\ retry_delay' = FloatMul(retry_delay, DelayFactor)
    /\ UNCHANGED <<pc, args, retries, retr, timeout, outcome>>
    /\ UNCHANGED <<collVars, attrVars, pureVars>>

\* One pass of the loop body in which session.get returns status 503.
Got503(r) ==
    /\ InLoop
    /\ r.status_code = 503
    /\ retr' = retr - 1
    /\ trace' = Append(Append(trace, GetEvent(timeout, r)), SleepEvent(retry_delay))
    /\ retry_delay' = FloatMul(retry_delay, DelayFactor)
    /\ UNCHANGED <<pc, args, retries, timeout, outcome>>
    /\ UNCHANGED <<collVars, attrVars, pureVars>>

\* GotOther without the content-type test
GotOther_noTypeCheck(r) ==
    /\ InLoop
    /\ r.status_code \notin {202, 503}
    /\ LET got == Append(trace, GetEvent(timeout, r)) IN
       IF ETfromstring(r.text).raises # None
         THEN Leave(ExceptClauses(ETfromstring(r.text).raises), got)
       ELSE Leave("root_elem", got)
    /\ UNCHANGED <<collVars, attrVars, pureVars>>

\* GotOther with a parse error taken for a transient failure and retried
GotOther_retryParseError(r) ==
    /\ InLoop
    /\ r.status_code \notin {202, 503}
    /\ LET got == Append(trace, GetEvent(timeout, r)) IN
       IF r.content_type = None
         THEN Leave(ExceptClauses("AttributeError"), got)
       ELSE IF ~StartsWith(r.content_type, "text/xml")
         THEN Leave(ExceptClauses("BoardGameGeekAPINonXMLError"), got)
       ELSE IF ETfromstring(r.text).raises # None
         THEN /\ retr' = retr - 1
              /\ trace' = got
              /\ UNCHANGED <<pc, args, retries, timeout, retry_delay, outcome>>
       ELSE Leave("root_elem", got)
    /\ UNCHANGED <<collVars, attrVars, pureVars>>

\* One pass of the loop body in which session.get returns any other status:
\* the content-type test, the parse and the return.
GotOther(r) ==
    /\ InLoop
    /\ r.status_code \notin {202, 503}
    /\ LET got == Append(trace, GetEvent(timeout, r)) IN
       IF r.content_type = None
         THEN Leave(ExceptClauses("AttributeError"), got)   \* None.startswith
       ELSE IF ~StartsWith(r.content_type, "text/xml")
         THEN Leave(ExceptClauses("BoardGameGeekAPINonXMLError"), got)
       ELSE IF ETfromstring(r.text).raises # None
         THEN Leave(ExceptClauses(ETfromstring(r.text).raises), got)
       ELSE Leave("root_elem", got)
    /\ UNCHANGED <<collVars, attrVars, pureVars>>

\* Variant: the timeout handler backs off the retry delay as well.
GotTimeout_raisesDelay ==
    /\ InLoop
    /\ LET got == Append(trace, GetEvent(timeout, Raised("Timeout"))) IN
       IF retries = 0 THEN Leave("BoardGameGeekTimeoutError", got)
       ELSE IF retr = 0 THEN Leave("BoardGameGeekTimeoutError", got)
       ELSE /\ timeout' = FloatMul(timeout, TimeoutFactor)
            /\ retry_delay' = FloatMul(retry_delay, DelayFactor)
            /\ retr' = retr - 1
            /\ trace' = got
            /\ UNCHANGED <<pc, args, retries, outcome>>
    /\ UNCHANGED <<collVars, attrVars, pureVars>>

\* One pass of the loop body in which session.get raises requests.exceptions.Timeout.
GotTimeout ==
    /\ InLoop
    /\ LET got == Append(trace, GetEvent(timeout, Raised("Timeout"))) IN
       IF retries = 0 THEN Leave("BoardGameGeekTimeoutError", got)
       ELSE IF retr = 0 THEN Leave("BoardGameGeekTimeoutError", got)
       ELSE /\ timeout' = FloatMul(timeout, TimeoutFactor)
            /\ retr' = retr - 1
            /\ trace' = got
            /\ UNCHANGED <<pc, args, retries, retry_delay, outcome>>
    /\ UNCHANGED <<collVars, attrVars, pureVars>>

\* Variant: a connection error is retried while the budget lasts.
GotException_retried ==
    /\ InLoop
    /\ LET got == Append(trace, GetEvent(timeout, Raised("ConnectionError"))) IN
       IF retries = 0 \/ retr = 0 THEN Leave(ExceptClauses("ConnectionError"), got)
       ELSE /\ retr' = retr - 1
            /\ trace' = got
            /\ UNCHANGED <<pc, args, retries, timeout, retry_delay, outcome>>
    /\ UNCHANGED <<collVars, attrVars, pureVars>>

\* One pass of the loop body in which session.get raises anything else.
GotException ==
    /\ InLoop
    /\ Leave(ExceptClauses("ConnectionError"),
             Append(trace, GetEvent(timeout, Raised("ConnectionError"))))
    /\ UNCHANGED <<collVars, attrVars, pureVars>>

\* The while test fails: the raise after the loop.
LoopExit ==
    /\ pc = "loop"
    /\ retr < 0
    /\ Leave("BoardGameGeekAPIError", trace)
    /\ UNCHANGED <<collVars, attrVars, pureVars>>

InitFetch ==
    /\ pc = "idle"
    /\ args = [timeout |-> Num(0), retries |-> 0, retry_delay |-> Num(0)]
    /\ retries = 0
    /\ retr = 0
    /\ timeout = Num(0)
    /\ retry_delay = Num(0)
    /\ trace = <<>>
    /\ outcome = "none"

NextFetch ==
    \/ \E t \in Timeouts, n \in 0..MaxRetries, d \in RetryDelays : Call(t, n, d)
    \/ \E r \in Responses : Got202(r)
    \/ \E r \in Responses : Got503(r)
    \/ \E r \in Responses : GotOther(r)
    \/ GotTimeout
    \/ GotException
    \/ LoopExit

(***************************************************************************)
(* Collection (collection.py) over DictObject (utils.py).                   *)
(* A list is an object: heap[i] is the content of the i-th list created,   *)
(* and ListIds[i] the reference to it that dictionaries hold. Dictionary   *)
(* values are references or strings.                                       *)
(***************************************************************************)
MaxItems == 2        \* no list grows beyond MaxItems records
MaxGens == 2         \* iteritems() is called at most MaxGens times

ListIds == <<"list#1", "list#2", "list#3", "list#4">>
Deref(ref) == heap[CHOOSE i \in 1..Len(ListIds) : ListIds[i] = ref]
IndexOf(ref) == CHOOSE i \in 1..Len(ListIds) : ListIds[i] = ref

RawRecords == {"catan", "agricola"}
CollIds == {1, 2}

\* d with d[k] = v added or replaced
DictSet(d, k, v) == [x \in DOMAIN d \cup {k} |-> IF x = k THEN v ELSE d[x]]

\* copy.copy of a dict: a new dict holding the same values, references included
copy(d) == [k \in DOMAIN d |-> d[k]]

\* Boardgame(item): an entity wrapping the raw record
Boardgame(item) == [class |-> "Boardgame", _data |-> item]

\* Collection.__len__ and Collection.size, in the state with lists h and collections cs
LenIn(h, cs, c) == Len(h[IndexOf(cs[c]["items"])])
len(c) == LenIn(heap, colls, c)
size(c) == Len(Deref(colls[c]["items"]))

\* Collection.__init__(data)
CollectionInit(c) ==
    /\ c \notin DOMAIN colls
    /\ LET kw == copy(data) IN
       IF "items" \notin DOMAIN kw
         THEN /\ heap' = Append(heap, <<>>)
              /\ colls' = [x \in DOMAIN colls \cup {c} |->
                             IF x = c THEN DictSet(kw, "items", ListIds[Len(heap) + 1])
                             ELSE colls[x]]
              /\ built' = [built EXCEPT ![c] = 0]
         ELSE /\ heap' = heap
              /\ colls' = [x \in DOMAIN colls \cup {c} |-> IF x = c THEN kw ELSE colls[x]]
              /\ built' = [built EXCEPT ![c] = Len(Deref(kw["items"]))]
    /\ UNCHANGED <<data, appends, gens>>
    /\ UNCHANGED <<fetchVars, attrVars, pureVars>>

\* Collection.add_game(game)
add_game(c, game) ==
    /\ c \in DOMAIN colls
    /\ Len(Deref(colls[c]["items"])) < MaxItems
    /\ heap' = [heap EXCEPT ![IndexOf(colls[c]["items"])] = Append(@, game)]
    /\ appends' = [appends EXCEPT ![c] = @ + 1]
    /\ UNCHANGED <<data, colls, built, gens>>
    /\ UNCHANGED <<fetchVars, attrVars, pureVars>>

\* Collection.iteritems(): calling a generator function runs none of its body
iteritems(c) ==
    /\ c \in DOMAIN colls
    /\ Len(gens) < MaxGens
    /\ gens' = Append(gens, [coll |-> c, state |-> "created", list |-> None,
                             index |-> 0, yielded |-> <<>>])
    /\ UNCHANGED <<heap, data, colls, appends, built>>
    /\ UNCHANGED <<fetchVars, attrVars, pureVars>>

\* ListIterNext stopping one item early
ListIterNext_stopEarly(l, index) ==
    IF index + 1 < Len(l) THEN [stop |-> FALSE, item |-> l[index + 1]]
    ELSE [stop |-> TRUE, item |-> None]

\* next() of a list iterator at position index over the list with content l
ListIterNext(l, index) ==
    IF index < Len(l) THEN [stop |-> FALSE, item |-> l[index + 1]]
    ELSE [stop |-> TRUE, item |-> None]

\* Variant: a generator that reached the end of the list resumes when asked again.
GenNext_resumes(g) ==
    /\ g \in DOMAIN gens
    /\ LET list == IF gens[g].state = "created" THEN colls[gens[g].coll]["items"]
                   ELSE gens[g].list
           nx == ListIterNext(Deref(list), gens[g].index)
       IN  gens' = [gens EXCEPT ![g] =
                IF nx.stop
                  THEN [@ EXCEPT !.state = "done", !.list = list]
                  ELSE [@ EXCEPT !.state = "running", !.list = list,
                                 !.index = @ + 1,
                                 !.yielded = Append(@, Boardgame(nx.item))]]
    /\ UNCHANGED <<heap, data, colls, appends, built>>
    /\ UNCHANGED <<fetchVars, attrVars, pureVars>>

\* next(g) on a generator iteritems() returned: the first call evaluates
\* self._data["items"] and starts the for loop, every call runs the loop up
\* to the next yield or to the end. The value yielded is collected in yielded.
GenNext(g) ==
    /\ g \in DOMAIN gens
    /\ gens[g].state # "done"
    /\ LET list == IF gens[g].state = "created" THEN colls[gens[g].coll]["items"]
                   ELSE gens[g].list
           nx == ListIterNext(Deref(list), gens[g].index)
       IN  gens' = [gens EXCEPT ![g] =
                IF nx.stop
                  THEN [@ EXCEPT !.state = "done", !.list = list]
                  ELSE [@ EXCEPT !.state = "running", !.list = list,
                                 !.index = @ + 1,
                                 !.yielded = Append(@, Boardgame(nx.item))]]
    /\ UNCHANGED <<heap, data, colls, appends, built>>
    /\ UNCHANGED <<fetchVars, attrVars, pureVars>>

\* The mappings a caller hands to Collection(): an owner, with or without an
\* items list.
InitialItems == {<<"catan">>}
CallerMappings ==
    { [k \in ks |-> IF k = "items" THEN ListIds[1] ELSE "fake_user"] :
        ks \in {{"owner"}, {"owner", "items"}} }

InitColl ==
    /\ data \in CallerMappings
    /\ IF "items" \in DOMAIN data
         THEN \E l \in InitialItems : heap = <<l>>
         ELSE heap = <<>>
    /\ colls = <<>>
    /\ appends = [c \in CollIds |-> 0]
    /\ built = [c \in CollIds |-> 0]
    /\ gens = <<>>

NextColl ==
    \/ \E c \in CollIds : CollectionInit(c)
    \/ \E c \in CollIds, game \in RawRecords : add_game(c, game)
    \/ \E c \in CollIds : iteritems(c)
    \/ \E g \in 1..MaxGens : GenNext(g)

(***************************************************************************)
(* Attribute reads. obj.name is resolved by Python's default lookup first  *)
(* (properties of the class, then the instance's own fields, then the      *)
(* methods of the class); __getattr__ runs only when that lookup fails.    *)
(***************************************************************************)
\* class DictObject: the field __init__ sets, and the methods of the class body
InstanceFields == {"_data"}
Methods(class) ==
    IF class = "Collection"
      THEN {"__init__", "__getattr__", "data", "_format", "add_game", "__unicode__",
            "__len__", "iteritems"}
      ELSE {"__init__", "__getattr__", "data"}
Properties(class) == IF class = "Collection" THEN {"owner", "size", "items"} ELSE {}

Value(v) == [kind |-> "value", value |-> v]
Raises(e) == [kind |-> "raise", exc |-> e]

\* GetAttr answering None for a missing key, as dict.get does
GetAttr_get(m, item) ==
    IF item # "_data" /\ item \in DOMAIN m THEN Value(m[item])
    ELSE Value(None)

\* DictObject.__getattr__(item) over the dictionary m
GetAttr(m, item) ==
    IF item # "_data" /\ item \in DOMAIN m THEN Value(m[item])
    ELSE Raises("AttributeError")

\* The getters of Collection's properties owner, size and items
PropertyGet(m, name) ==
    IF name = "owner" THEN (IF "owner" \in DOMAIN m THEN Value(m["owner"]) ELSE Value(None))
    ELSE IF name = "size" THEN [kind |-> "int", n |-> Len(Deref(m["items"]))]
    ELSE Value(m["items"])

\* obj.name for an object of the given class whose _data is m
ReadAttribute(class, m, name) ==
    IF name \in Properties(class) THEN PropertyGet(m, name)
    ELSE IF name \in InstanceFields THEN [kind |-> "dict", keys |-> DOMAIN m]
    ELSE IF name \in Methods(class) THEN [kind |-> "method", of |-> name]
    ELSE GetAttr(m, name)

Keys == {"owner", "name", "items", "size", "data", "_data"}
AttrNames == Keys \cup {"iteritems", "username"}

\* DictObject(data).name: DictObject.__init__ keeps the reference to data
ReadDictObject(name) ==
    /\ lastRead' = [object |-> "DictObject", m |-> data, name |-> name,
                    result |-> ReadAttribute("DictObject", data, name)]
    /\ UNCHANGED <<fetchVars, collVars, pureVars>>

\* c.name for a Collection c
ReadCollection(c, name) ==
    /\ c \in DOMAIN colls
    /\ lastRead' = [object |-> "Collection", m |-> colls[c], name |-> name,
                    result |-> ReadAttribute("Collection", colls[c], name)]
    /\ UNCHANGED <<fetchVars, collVars, pureVars>>

AttrMappings ==
    { [k \in ks |-> IF k = "items" THEN ListIds[1] ELSE "value of " \o k] :
        ks \in SUBSET Keys }

InitAttr ==
    /\ data \in AttrMappings
    /\ heap = IF "items" \in DOMAIN data THEN << <<"catan">> >> ELSE <<>>
    /\ colls = <<>>
    /\ appends = [c \in CollIds |-> 0]
    /\ built = [c \in CollIds |-> 0]
    /\ gens = <<>>

NextAttr ==
    \/ \E c \in CollIds : CollectionInit(c)
    \/ \E name \in AttrNames : ReadDictObject(name)
    \/ \E c \in CollIds, name \in AttrNames : ReadCollection(c, name)

(***************************************************************************)
(* xml_subelement_attr, xml_subelement_attr_list, xml_subelement_text.     *)
(* Python values of several types are tagged: XNone, XStr, XInt, a list,   *)
(* or the exception a call raised. An element has a sequence of children,  *)
(* each with a tag, an attribute dictionary and a text (XNone when empty). *)
(***************************************************************************)
MaxChildren == 2     \* an element has at most MaxChildren children

XNone == [kind |-> "None"]
XStr(s) == [kind |-> "str", s |-> s]
XInt(n) == [kind |-> "int", n |-> n]
XList(l) == [kind |-> "list", items |-> l]
XRaise(e) == [kind |-> "raise", exc |-> e]

Tags == {"year", "name"}
AttribValues == {"42", "abc"}
Texts == {XNone, XStr("7"), XStr("x")}
Attribs == {<<>>} \cup {[a \in {"value"} |-> v] : v \in AttribValues}
Children == [kind : {"element"}, tag : Tags, attrib : Attribs, text : Texts]
Elements ==
    [kind : {"element"},
     children : UNION {[1..n -> Children] : n \in 0..MaxChildren}]

\* the arguments of the calls
SubelementArgs == {"", None, "year", "rank"}
ConvertArgs == {None, "int"}
AttributeArgs == {"value", "id"}
DefaultArgs == {XNone, XInt(7)}

\* int(s) for a str s: the model's strings are digits or letters only
DecimalDigits == "0123456789"
IsDigit(ch) == \E i \in 1..Len(DecimalDigits) : SubSeq(DecimalDigits, i, i) = ch
DigitValue(ch) ==
    (CHOOSE i \in 1..Len(DecimalDigits) : SubSeq(DecimalDigits, i, i) = ch) - 1
RECURSIVE DecimalValue(_)
DecimalValue(s) ==
    IF Len(s) = 0 THEN 0
    ELSE 10 * DecimalValue(SubSeq(s, 1, Len(s) - 1))
           + DigitValue(SubSeq(s, Len(s), Len(s)))
int(s) ==
    IF Len(s) > 0 /\ \A i \in 1..Len(s) : IsDigit(SubSeq(s, i, i))
      THEN XInt(DecimalValue(s))
      ELSE XRaise("ValueError")

\* convert(value) for the callables the model passes as convert
Convert(convert, value) == int(value.s)

\* `not subelement`
Falsy(subelement) == subelement = None \/ subelement = ""

\* Element.find(tag): the first child with the tag, or None
find(elem, tag) ==
    IF \E i \in 1..Len(elem.children) : elem.children[i].tag = tag
      THEN elem.children[CHOOSE i \in 1..Len(elem.children) :
                            /\ elem.children[i].tag = tag
                            /\ \A j \in 1..(i - 1) : elem.children[j].tag # tag]
      ELSE XNone

\* Element.findall(tag): the children with the tag, in document order
findall(elem, tag) == SelectSeq(elem.children, LAMBDA e : e.tag = tag)

\* attrib.get(attribute)
AttribGet(attrib, attribute) ==
    IF attribute \in DOMAIN attrib THEN XStr(attrib[attribute]) ELSE XNone

\* xml_subelement_attr with the guard answering default
xml_subelement_attr_guardDefault(elem, subelement, convert, attribute, default, quiet) ==
    IF elem = XNone \/ Falsy(subelement) THEN default
    ELSE LET subel == find(elem, subelement) IN
         IF subel = XNone THEN default
         ELSE LET value == AttribGet(subel.attrib, attribute) IN
              IF value = XNone THEN default
              ELSE IF convert # None
                THEN LET converted == Convert(convert, value) IN
                     IF converted.kind = "raise"
                       THEN (IF quiet THEN default ELSE converted)
                       ELSE converted
              ELSE value

\* xml_subelement_attr(xml_elem, subelement, convert, attribute, default, quiet)
xml_subelement_attr(elem, subelement, convert, attribute, default, quiet) ==
    IF elem = XNone \/ Falsy(subelement) THEN XNone
    ELSE LET subel == find(elem, subelement) IN
         IF subel = XNone THEN default
         ELSE LET value == AttribGet(subel.attrib, attribute) IN
              IF value = XNone THEN default
              ELSE IF convert # None
                THEN LET converted == Convert(convert, value) IN
                     IF converted.kind = "raise"
                       THEN (IF quiet THEN default ELSE converted)
                       ELSE converted
              ELSE value

\* the value one pass of the loop of xml_subelement_attr_list appends for the
\* element e, or the exception that pass raises
AttrListPass(e, convert, attribute, default, quiet) ==
    LET value == AttribGet(e.attrib, attribute) IN
    IF value = XNone THEN default
    ELSE IF convert # None
      THEN LET converted == Convert(convert, value) IN
           IF converted.kind = "raise"
             THEN (IF quiet THEN default ELSE converted)
             ELSE converted
    ELSE value

\* xml_subelement_attr_list swallowing conversion errors whatever quiet is
xml_subelement_attr_list_alwaysQuiet(elem, subelement, convert, attribute, default, quiet) ==
    IF elem = XNone \/ Falsy(subelement) THEN XNone
    ELSE LET subel == findall(elem, subelement) IN
         XList([i \in 1..Len(subel) |->
                  AttrListPass(subel[i], convert, attribute, default, TRUE)])

\* xml_subelement_attr_list(xml_elem, subelement, convert, attribute, default, quiet):
\* the first pass that raises ends the call
xml_subelement_attr_list(elem, subelement, convert, attribute, default, quiet) ==
    IF elem = XNone \/ Falsy(subelement) THEN XNone
    ELSE LET subel == findall(elem, subelement)
             res == [i \in 1..Len(subel) |->
                       AttrListPass(subel[i], convert, attribute, default, quiet)]
             raising == {i \in 1..Len(subel) : res[i].kind = "raise"}
         IN  IF raising # {}
               THEN res[CHOOSE i \in raising : \A j \in raising : i <= j]
               ELSE XList(res)

\* xml_subelement_text(xml_elem, subelement, convert, default, quiet)
xml_subelement_text(elem, subelement, convert, default, quiet) ==
    IF elem = XNone \/ Falsy(subelement) THEN XNone
    ELSE LET subel == find(elem, subelement) IN
         IF subel = XNone THEN default
         ELSE LET text == subel.text IN
              IF text = XNone THEN default
              ELSE IF convert # None
                THEN LET converted == Convert(convert, text) IN
                     IF converted.kind = "raise"
                       THEN (IF quiet THEN default ELSE converted)
                       ELSE converted
              ELSE text

\* no call was made yet: each behaviour makes one call of one function
NoCall == lastCall = [fn |-> None]

XmlCall(fn, subelement, convert, attribute, default, quiet, result) ==
    [fn |-> fn, subelement |-> subelement, convert |-> convert,
     attribute |-> attribute, default |-> default, quiet |-> quiet,
     result |-> result]

CallAttr(subelement, convert, attribute, default, quiet) ==
    /\ NoCall
    /\ lastCall' = XmlCall("xml_subelement_attr", subelement, convert, attribute,
                           default, quiet,
                           xml_subelement_attr(xml_elem, subelement, convert,
                                               attribute, default, quiet))
    /\ UNCHANGED <<xml_elem, uri, session>>
    /\ UNCHANGED <<fetchVars, collVars, attrVars>>

CallAttrList(subelement, convert, attribute, default, quiet) ==
    /\ NoCall
    /\ lastCall' = XmlCall("xml_subelement_attr_list", subelement, convert, attribute,
                           default, quiet,
                           xml_subelement_attr_list(xml_elem, subelement, convert,
                                                    attribute, default, quiet))
    /\ UNCHANGED <<xml_elem, uri, session>>
    /\ UNCHANGED <<fetchVars, collVars, attrVars>>

CallText(subelement, convert, default, quiet) ==
    /\ NoCall
    /\ lastCall' = XmlCall("xml_subelement_text", subelement, convert, None,
                           default, quiet,
                           xml_subelement_text(xml_elem, subelement, convert,
                                               default, quiet))
    /\ UNCHANGED <<xml_elem, uri, session>>
    /\ UNCHANGED <<fetchVars, collVars, attrVars>>

NextXml ==
    \/ \E s \in SubelementArgs, c \in ConvertArgs, a \in AttributeArgs,
          d \in DefaultArgs, q \in BOOLEAN : CallAttr(s, c, a, d, q)
    \/ \E s \in SubelementArgs, c \in ConvertArgs, a \in AttributeArgs,
          d \in DefaultArgs, q \in BOOLEAN : CallAttrList(s, c, a, d, q)
    \/ \E s \in SubelementArgs, c \in ConvertArgs,
          d \in DefaultArgs, q \in BOOLEAN : CallText(s, c, d, q)

(***************************************************************************)
(* get_cache_session_from_uri. URIs are strings, taken apart as            *)
(* urllib.parse does; the model's URIs are lower case and hold no %-escape *)
(* and no ';'.                                                             *)
(***************************************************************************)
\* the first position of s that holds one of chars, or 0
FindChar(s, chars) ==
    IF \E i \in 1..Len(s) : SubSeq(s, i, i) \in chars
      THEN CHOOSE i \in 1..Len(s) :
              /\ SubSeq(s, i, i) \in chars
              /\ \A j \in 1..(i - 1) : SubSeq(s, j, j) \notin chars
      ELSE 0
Before(s, i) == SubSeq(s, 1, i - 1)
After(s, i) == SubSeq(s, i + 1, Len(s))
InString(ch, s) == \E i \in 1..Len(s) : SubSeq(s, i, i) = ch
Letters == "abcdefghijklmnopqrstuvwxyz"
SchemeChars == Letters \o DecimalDigits \o "+-."

\* urlparse(uri): scheme, netloc, path and query, or ValueError
urlparse(u) ==
    LET colon == FindChar(u, {":"})
        hasScheme == /\ colon > 1
                     /\ InString(SubSeq(u, 1, 1), Letters)
                     /\ \A j \in 1..(colon - 1) : InString(SubSeq(u, j, j), SchemeChars)
        scheme == IF hasScheme THEN Before(u, colon) ELSE ""
        rest == IF hasScheme THEN After(u, colon) ELSE u
        hasNetloc == Len(rest) >= 2 /\ SubSeq(rest, 1, 2) = "//"
        tail == After(rest, 2)
        delim == FindChar(tail, {"/", "?", "#"})
        netloc == IF ~hasNetloc THEN ""
                  ELSE IF delim = 0 THEN tail ELSE Before(tail, delim)
        url == IF ~hasNetloc THEN rest
               ELSE IF delim = 0 THEN "" ELSE SubSeq(tail, delim, Len(tail))
        hash == FindChar(url, {"#"})
        nofrag == IF hash = 0 THEN url ELSE Before(url, hash)
        qmark == FindChar(nofrag, {"?"})
    IN  IF InString("[", netloc) # InString("]", netloc)
          THEN [raises |-> "ValueError"]
          ELSE [raises |-> None, scheme |-> scheme, netloc |-> netloc,
                path |-> IF qmark = 0 THEN nofrag ELSE Before(nofrag, qmark),
                query |-> IF qmark = 0 THEN "" ELSE After(nofrag, qmark)]

RECURSIVE split(_, _)
\* str.split(sep)
split(s, sep) ==
    LET i == FindChar(s, {sep}) IN
    IF i = 0 THEN <<s>> ELSE <<Before(s, i)>> \o split(After(s, i), sep)

\* parse_qs(query): name -> the list of its values; fields without '=' and
\* fields with a blank value are dropped
parse_qs(qs) ==
    LET kept == SelectSeq(split(qs, "&"),
                          LAMBDA f : /\ FindChar(f, {"="}) # 0
                                     /\ Len(After(f, FindChar(f, {"="}))) > 0)
        name(f) == Before(f, FindChar(f, {"="}))
        value(f) == After(f, FindChar(f, {"="}))
        of(n) == SelectSeq(kept, LAMBDA f : name(f) = n)
    IN  [n \in {name(kept[j]) : j \in 1..Len(kept)} |->
            [j \in 1..Len(of(n)) |-> value(of(n)[j])]]

\* args.get(key, default)
DictGet(d, key, default) == IF key \in DOMAIN d THEN d[key] ELSE default

ConfigurationError == XRaise("BoardGameGeekError")

\* get_cache_session_from_uri with a memory session for every unknown scheme
get_cache_session_from_uri_fallback(u) ==
    LET r == urlparse(u) IN
    IF r.raises # None THEN ConfigurationError
    ELSE LET args_ == parse_qs(r.query)
             ttl == int(DictGet(args_, "ttl", <<"3600">>)[1])
         IN  IF ttl.kind = "raise" THEN ConfigurationError
             ELSE IF r.scheme = "sqlite"
               THEN [kind |-> "session", backend |-> "sqlite", cache_name |-> r.path,
                     expire_after |-> ttl.n, extension |-> "",
                     fast_save |-> DictGet(args_, "fast_save", <<"0">>)[1] # "0",
                     allowable_codes |-> <<200>>]
             ELSE [kind |-> "session", backend |-> "memory", expire_after |-> ttl.n,
                   allowable_codes |-> <<200>>]

\* get_cache_session_from_uri(uri): the CachedSession returned, or the
\* BoardGameGeekError raised
get_cache_session_from_uri(u) ==
    LET r == urlparse(u) IN
    IF r.raises # None THEN ConfigurationError
    ELSE LET args_ == parse_qs(r.query)
             ttl == int(DictGet(args_, "ttl", <<"3600">>)[1])
         IN  IF ttl.kind = "raise" THEN ConfigurationError
             ELSE IF r.scheme = "memory"
               THEN [kind |-> "session", backend |-> "memory", expire_after |-> ttl.n,
                     allowable_codes |-> <<200>>]
             ELSE IF r.scheme = "sqlite"
               THEN [kind |-> "session", backend |-> "sqlite", cache_name |-> r.path,
                     expire_after |-> ttl.n, extension |-> "",
                     fast_save |-> DictGet(args_, "fast_save", <<"0">>)[1] # "0",
                     allowable_codes |-> <<200>>]
             ELSE ConfigurationError

\* The URIs handed to the function: scheme ":" rest, with a query made of an
\* optional ttl and an optional fast_save; and some that do not have that form.
UriSchemes == {"memory", "sqlite", "foo", "redis"}
UriRests == {"///", "///x.db", "//bar", "//[bar"}
UriTtls == {"", "ttl=60", "ttl=10", "ttl=abc", "ttl="}
UriFastSaves == {"", "fast_save=1", "fast_save=0"}
UriOf(scheme, rest, ttl, fast) ==
    scheme \o ":" \o rest
      \o (IF ttl = "" /\ fast = "" THEN "" ELSE "?")
      \o ttl \o (IF ttl # "" /\ fast # "" THEN "&" ELSE "") \o fast
OtherUris == {"", "memory", "/x.db?ttl=60", "?ttl=60:1"}
Uris ==
    {UriOf(sc, re, t, f) : sc \in UriSchemes, re \in UriRests, t \in UriTtls,
                           f \in UriFastSaves}
    \cup OtherUris

NoSession == session = [kind |-> "none"]

GetSession ==
    /\ NoSession
    /\ session' = get_cache_session_from_uri(uri)
    /\ UNCHANGED <<xml_elem, lastCall, uri>>
    /\ UNCHANGED <<fetchVars, collVars, attrVars>>

NextUri == GetSession

NoXml == xml_elem = XNone /\ NoCall
NoUri == uri = "" /\ NoSession

NoColl ==
    /\ data = <<>>
    /\ heap = <<>>
    /\ colls = <<>>
    /\ appends = [c \in CollIds |-> 0]
    /\ built = [c \in CollIds |-> 0]
    /\ gens = <<>>

NoRead == lastRead = [object |-> None]

InitF == InitFetch /\ NoColl /\ NoRead /\ NoXml /\ NoUri
InitC == InitFetch /\ InitColl /\ NoRead /\ NoXml /\ NoUri
InitA == InitFetch /\ InitAttr /\ NoRead /\ NoXml /\ NoUri
InitU == InitFetch /\ NoColl /\ NoRead /\ NoXml /\ uri \in Uris /\ NoSession
InitX == InitFetch /\ NoColl /\ NoRead /\ xml_elem \in Elements \cup {XNone} /\ NoCall /\ NoUri

SpecFetch == InitF /\ [][NextFetch]_vars
\* The calls made with the default timeout and retry_delay (any retries).
NextFetchDefaults ==
    /\ NextFetch
    /\ pc = "idle" => /\ args'.timeout = Num(DefaultTimeout)
                      /\ args'.retry_delay = Num(DefaultRetryDelay)
\* A call that has started keeps running: session.get returns or raises within
\* its timeout, time.sleep returns, and the interpreter takes the next step.
\* Whether a call is made at all is up to the caller.
SpecFetchFair ==
    InitF /\ [][NextFetchDefaults]_vars /\ WF_vars(pc = "loop" /\ NextFetchDefaults)
SpecColl == InitC /\ [][NextColl]_vars
SpecAttr == InitA /\ [][NextAttr]_vars
SpecXml == InitX /\ [][NextXml]_vars
SpecUri == InitU /\ [][NextUri]_vars

(***************************************************************************)
(* Properties of get_parsed_xml_response, checked under SpecFetch.         *)
(***************************************************************************)
Gets == SelectSeq(trace, LAMBDA e : e.ev = "get")
Sleeps == SelectSeq(trace, LAMBDA e : e.ev = "sleep")

IsResponse(o) == o.kind = "response"
Is202(o) == IsResponse(o) /\ o.status_code = 202
Is503(o) == IsResponse(o) /\ o.status_code = 503
IsTimeout(o) == o.kind = "raise" /\ o.exc = "Timeout"
TextXmlTypes == {"text/xml", "text/xml; charset=utf-8"}
XmlMediaTypes == TextXmlTypes \cup {"application/xml"}
IsSuccess(o) ==
    /\ IsResponse(o)
    /\ o.status_code = 200
    /\ o.content_type \in XmlMediaTypes
    /\ o.text = WellFormed

\* trace[i] is a session.get that returned a response
IsGot(i) == trace[i].ev = "get" /\ IsResponse(trace[i].result)
\* the call ended at trace[i], raising exc: nothing, neither a request nor a
\* sleep, comes after it
EndedAt(i, exc) == i = Len(trace) /\ pc = "done" /\ outcome = exc

\* C1: with retries=3 and retry_delay=5, when the server answers 202, 202, 202
\* and then 200 with XML, the call returns the document after exactly four
\* requests, having slept 5, 7.5 and 11.25 seconds in that order.
C1_ThreeRetriesThenDocument ==
    ( /\ pc = "done"
      /\ args.retries = 3
      /\ FloatEq(args.retry_delay, Num(5))
      /\ Len(Gets) <= 4
      /\ \A i \in 1..Len(Gets) :
            IF i <= 3 THEN Is202(Gets[i].result) ELSE IsSuccess(Gets[i].result) )
    => ( /\ outcome = "root_elem"
         /\ Len(Gets) = 4
         /\ Len(Sleeps) = 3
         /\ FloatEq(Sleeps[1].secs, <<5, 1>>)
         /\ FloatEq(Sleeps[2].secs, <<15, 2>>)
         /\ FloatEq(Sleeps[3].secs, <<45, 4>>) )

\* C2: with retries=0 one request is issued, and if it is answered 202 the
\* call raises the retry error at once, with no sleep and no second request.
C2_ZeroRetriesOneRequest ==
    (pc = "done" /\ args.retries = 0)
    => ( /\ Len(Gets) = 1
         /\ Is202(Gets[1].result) =>
               (outcome = "BoardGameGeekAPIRetryError" /\ Len(Sleeps) = 0) )

\* C3: with retries=2, when every attempt times out, the call raises the
\* timeout error after three requests whose timeouts are t, 2.5t and 6.25t.
C3_TimeoutsEscalate ==
    ( /\ pc = "done"
      /\ args.retries = 2
      /\ \A i \in 1..Len(Gets) : IsTimeout(Gets[i].result) )
    => ( /\ outcome = "BoardGameGeekTimeoutError"
         /\ Len(Gets) = 3
         /\ FloatEq(Gets[1].timeout, args.timeout)
         /\ FloatEq(Gets[2].timeout, FloatMul(args.timeout, <<5, 2>>))
         /\ FloatEq(Gets[3].timeout, FloatMul(args.timeout, <<25, 4>>)) )

\* C4 as stated: every response whose status is neither 200, 202 nor 503,
\* whatever its content-type and body, makes the call raise the non-XML error
\* at once.
C4_OtherStatusIsNonXML ==
    \A i \in 1..Len(trace) :
        (IsGot(i) /\ trace[i].result.status_code \notin {200, 202, 503})
        => EndedAt(i, "BoardGameGeekAPINonXMLError")

\* C4 as amended: every response whose status is neither 200, 202 nor 503 and
\* whose content-type is present and does not begin with text/xml, whatever
\* its body, makes the call raise the non-XML error at once: it is not parsed,
\* and no request or sleep follows.
C4_OtherStatusNonXMLType ==
    \A i \in 1..Len(trace) :
        ( /\ IsGot(i)
          /\ trace[i].result.status_code \notin {200, 202, 503}
          /\ trace[i].result.content_type \notin TextXmlTypes \cup {None} )
        => EndedAt(i, "BoardGameGeekAPINonXMLError")

C4_Witness ==
    /\ Len(trace) >= 3
    /\ IsGot(Len(trace))
    /\ trace[Len(trace)].result.status_code = 404
    /\ trace[Len(trace)].result.content_type = "application/json"
    /\ trace[Len(trace)].result.text = WellFormed
    /\ outcome = "BoardGameGeekAPINonXMLError"

\* C5: when every attempt of a call with retries >= 1 ended in a transient
\* signal (202, 503, timeout), the call ends with the error matching the last
\* signal, the retry error or the timeout error, and never with the generic
\* BoardGameGeekAPIError.
C5_ExhaustionRaisesMatchingError ==
    ( /\ pc = "done"
      /\ args.retries >= 1
      /\ Len(Gets) >= 1
      /\ \A i \in 1..Len(Gets) :
            Is202(Gets[i].result) \/ Is503(Gets[i].result) \/ IsTimeout(Gets[i].result) )
    => outcome = IF IsTimeout(Gets[Len(Gets)].result) THEN "BoardGameGeekTimeoutError"
                 ELSE "BoardGameGeekAPIRetryError"

\* C6: in a call with retries >= 1, a 200 response whose content-type is not
\* an XML media type makes the call raise the non-XML error on that attempt:
\* no request and no sleep follows, whatever is left of the retry budget.
C6_NonXMLTypeNotRetried ==
    args.retries >= 1 =>
        \A i \in 1..Len(trace) :
            ( /\ IsGot(i)
              /\ trace[i].result.status_code = 200
              /\ trace[i].result.content_type \notin XmlMediaTypes \cup {None} )
            => EndedAt(i, "BoardGameGeekAPINonXMLError")

C6_Witness ==
    /\ args.retries = 3
    /\ retr = 1
    /\ IsGot(Len(trace))
    /\ trace[Len(trace)].result.status_code = 200
    /\ trace[Len(trace)].result.content_type = "application/json"
    /\ outcome = "BoardGameGeekAPINonXMLError"

\* C7: in a call with retries >= 1, a 200 response with content-type text/xml
\* whose body is not well-formed makes the call raise BoardGameGeekAPIError on
\* that attempt: no request and no sleep follows, whatever is left of the
\* retry budget.
C7_MalformedBodyNotRetried ==
    args.retries >= 1 =>
        \A i \in 1..Len(trace) :
            ( /\ IsGot(i)
              /\ trace[i].result.status_code = 200
              /\ trace[i].result.content_type = "text/xml"
              /\ trace[i].result.text # WellFormed )
            => EndedAt(i, "BoardGameGeekAPIError")

C7_Witness ==
    /\ args.retries = 3
    /\ retr = 1
    /\ IsGot(Len(trace))
    /\ trace[Len(trace)].result.status_code = 200
    /\ trace[Len(trace)].result.content_type = "text/xml"
    /\ trace[Len(trace)].result.text = Malformed
    /\ outcome = "BoardGameGeekAPIError"

(***************************************************************************)
(* Properties of Collection, checked under SpecColl.                       *)
(***************************************************************************)
\* the entities a full iteration of c yields when the lists are h
Wrapped(h, cs, c) ==
    [i \in 1..LenIn(h, cs, c) |-> Boardgame(h[IndexOf(cs[c]["items"])][i])]

\* C8: an iteration run to exhaustion has yielded exactly len() entities, one
\* per raw record, in insertion order from the first item; a step of one
\* generator moves no other generator's cursor; and no step of a generator
\* changes the len() of a Collection.
C8_IterationYieldsAll ==
    [][ /\ \A g \in DOMAIN gens :
              (gens[g].state # "done" /\ gens'[g].state = "done")
              => gens'[g].yielded = Wrapped(heap', colls', gens[g].coll)
        /\ \A g \in DOMAIN gens, h \in DOMAIN gens :
              (g # h /\ gens'[g] # gens[g]) => gens'[h] = gens[h]
        /\ gens' # gens =>
              \A c \in DOMAIN colls : LenIn(heap', colls', c) = LenIn(heap, colls, c)
      ]_vars

C8_Witness ==
    /\ Len(gens) = 2
    /\ gens[1].coll = gens[2].coll
    /\ appends[gens[1].coll] = 2
    /\ len(gens[1].coll) = 2
    /\ \A g \in {1, 2} :
          /\ gens[g].state = "done"
          /\ gens[g].yielded = Wrapped(heap, colls, gens[g].coll)

\* C9: the len() and the size of every Collection equal the number of records
\* its items list held at construction (zero without an items key) plus the
\* number of add_game calls made on that Collection.
C9_LengthIsInitialPlusAppends ==
    \A c \in DOMAIN colls :
        /\ len(c) = built[c] + appends[c]
        /\ size(c) = built[c] + appends[c]

(***************************************************************************)
(* Properties of attribute reads, checked under SpecAttr.                  *)
(***************************************************************************)
ReadFollowsMapping ==
    /\ lastRead.name \in DOMAIN lastRead.m =>
          lastRead.result = Value(lastRead.m[lastRead.name])
    /\ lastRead.name \notin DOMAIN lastRead.m =>
          lastRead.result = Raises("AttributeError")

\* C10 as stated: reading the name n gives m[n] when n is a key of m and
\* raises AttributeError for every other name, _data included.
C10_EveryNameReadsMapping ==
    lastRead.object # None => ReadFollowsMapping

\* C10 as amended: for every name that is neither the field _data nor a method
\* or property of the object's class, reading it gives m[n] when n is a key of
\* m and raises AttributeError otherwise; reading _data gives the mapping.
C10_OtherNamesReadMapping ==
    lastRead.object # None =>
        /\ lastRead.name \notin InstanceFields \cup Methods(lastRead.object)
                                \cup Properties(lastRead.object)
              => ReadFollowsMapping
        /\ lastRead.name = "_data" =>
              lastRead.result = [kind |-> "dict", keys |-> DOMAIN lastRead.m]

C10_Witness ==
    /\ lastRead.object = "Collection"
    /\ lastRead.name = "name"
    /\ "name" \in DOMAIN lastRead.m
    /\ lastRead.result = Value("value of name")

(***************************************************************************)
(* Properties of the xml_subelement_* functions, checked under SpecXml.    *)
(***************************************************************************)
\* the call was answered by the guard: no element, or no subelement name
Guarded == xml_elem = XNone \/ lastCall.subelement \in {"", None}
\* the children the call is about, in document order
Matching == SelectSeq(xml_elem.children, LAMBDA e : e.tag = lastCall.subelement)
\* what the call reads off the child e: its attribute, or its text
ReadOf(e) ==
    IF lastCall.fn = "xml_subelement_text" THEN e.text
    ELSE IF lastCall.attribute \in DOMAIN e.attrib
      THEN XStr(e.attrib[lastCall.attribute])
      ELSE XNone
Scalar == {"xml_subelement_attr", "xml_subelement_text"}
\* the strings of the model int() accepts, and what it makes of them
IntOf == [s \in {"42", "7"} |-> IF s = "42" THEN 42 ELSE 7]
\* what convert=int with the call's quiet makes of the value v that was read
Converted(v) ==
    IF v.s \in DOMAIN IntOf THEN XInt(IntOf[v.s])
    ELSE IF lastCall.quiet THEN lastCall.default
    ELSE XRaise("ValueError")

\* C11: for the three functions, a call with no element or with an empty
\* subelement name gives None whatever the default is; otherwise, for
\* xml_subelement_attr and xml_subelement_text, when the child, or its
\* attribute or text, is missing the result is the default itself, with no
\* conversion applied.
C11_GuardGivesNoneMissingGivesDefault ==
    lastCall.fn # None =>
        /\ Guarded => lastCall.result = XNone
        /\ ( /\ ~Guarded
             /\ lastCall.fn \in Scalar
             /\ (Len(Matching) = 0 \/ ReadOf(Matching[1]) = XNone) )
           => lastCall.result = lastCall.default

C11_Witness ==
    /\ lastCall.fn = "xml_subelement_attr"
    /\ xml_elem # XNone
    /\ Len(xml_elem.children) = 2
    /\ lastCall.subelement = ""
    /\ lastCall.convert = "int"
    /\ lastCall.default = XInt(7)
    /\ lastCall.result = XNone

\* C12: when the value is present and convert raises on it, the result is the
\* default if quiet and the exception reaches the caller if not; when convert
\* succeeds the result is the converted value. For xml_subelement_attr_list
\* this holds element by element, and one exception ends the whole call.
C12_ConversionPolicy ==
    (lastCall.fn # None /\ ~Guarded /\ lastCall.convert # None) =>
        /\ ( /\ lastCall.fn \in Scalar
             /\ Len(Matching) > 0
             /\ ReadOf(Matching[1]) # XNone )
           => lastCall.result = Converted(ReadOf(Matching[1]))
        /\ lastCall.fn = "xml_subelement_attr_list" =>
              IF \E i \in 1..Len(Matching) :
                    /\ ReadOf(Matching[i]) # XNone
                    /\ Converted(ReadOf(Matching[i])).kind = "raise"
                THEN lastCall.result = XRaise("ValueError")
                ELSE /\ lastCall.result.kind = "list"
                     /\ Len(lastCall.result.items) = Len(Matching)
                     /\ \A i \in 1..Len(Matching) :
                           ReadOf(Matching[i]) # XNone =>
                              lastCall.result.items[i] = Converted(ReadOf(Matching[i]))

C12_Witness ==
    /\ lastCall.fn = "xml_subelement_attr"
    /\ ~Guarded
    /\ Len(Matching) > 0
    /\ ReadOf(Matching[1]) = XStr("abc")
    /\ lastCall.convert = "int"
    /\ lastCall.quiet
    /\ lastCall.default = XInt(7)
    /\ lastCall.result = XInt(7)

(***************************************************************************)
(* Properties of get_cache_session_from_uri, checked under SpecUri.        *)
(***************************************************************************)
\* C13: the function returns a caching session for exactly the schemes memory
\* and sqlite, with the ttl the query gives and, for sqlite, fast_save true
\* when the query says fast_save=1; for every other scheme, and for every
\* URI that cannot be parsed or whose ttl is no number, it raises
\* BoardGameGeekError and returns no session.
C13_SessionForMemoryAndSqliteOnly ==
    ~NoSession =>
        /\ \A sc \in UriSchemes, re \in UriRests, t \in UriTtls, f \in UriFastSaves :
              uri = UriOf(sc, re, t, f) =>
                 IF sc \in {"memory", "sqlite"} /\ t # "ttl=abc" /\ re # "//[bar"
                   THEN /\ session.kind = "session"
                        /\ session.backend = sc
                        /\ t = "ttl=60" => session.expire_after = 60
                        /\ t = "ttl=10" => session.expire_after = 10
                        /\ (sc = "sqlite" /\ f = "fast_save=1") => session.fast_save
                   ELSE session = XRaise("BoardGameGeekError")
        /\ uri \in OtherUris => session = XRaise("BoardGameGeekError")

C13_Witness ==
    /\ uri = "sqlite:///x.db?ttl=10&fast_save=1"
    /\ session.kind = "session"
    /\ session.backend = "sqlite"
    /\ session.expire_after = 10
    /\ session.fast_save

(***************************************************************************)
(* Further properties of get_parsed_xml_response, checked under SpecFetch. *)
(***************************************************************************)
As202(r) == [r EXCEPT !.status_code = 202]
\* what one pass of the loop can do to the call: leave it or stay in the loop,
\* sleep or not, decrement retr or not, raise retry_delay or not
PassEffect(p, slept, dec, raised) ==
    /\ pc' = p
    /\ Len(trace') = Len(trace) + (IF slept THEN 2 ELSE 1)
    /\ retr' = retr - (IF dec THEN 1 ELSE 0)
    /\ FloatEq(retry_delay',
               IF raised THEN FloatMul(retry_delay, DelayFactor) ELSE retry_delay)

\* C14: a 503 is handled exactly as a 202 for backoff: wherever the call
\* stands, a pass answered 503 has the effect the same pass answered 202 would
\* have (one more request, the same sleep or none, the same budget left), so
\* the requests and the sleeps of a call do not change when 503 replaces 202;
\* in particular no call ends on a sleep.
C14_503BacksOffLike202 ==
    args.retries >= 1 =>
        /\ InLoop =>
              \A r \in {x \in Responses : x.status_code = 503} :
              \A p \in {"loop", "done"}, slept \in BOOLEAN, dec \in BOOLEAN,
                 raised \in BOOLEAN :
                    ENABLED (Got503(r) /\ PassEffect(p, slept, dec, raised))
                    <=> ENABLED (Got202(As202(r)) /\ PassEffect(p, slept, dec, raised))
        /\ (pc = "done" /\ Len(trace) > 0) => trace[Len(trace)].ev = "get"

\* C15: within one call the remaining retry count never increases, a 202, a
\* 503 and a timeout that keep the call going each take one from that same
\* counter, and the call never issues more than retries + 1 requests.
C15_OneBudgetBoundsRequests ==
    /\ [][pc = "loop" => /\ retr' <= retr
                         /\ (pc' = "loop" /\ Len(Gets') > Len(Gets))
                                => retr' = retr - 1]_vars
    /\ [](Len(Gets) <= args.retries + 1)

\* a finished call that met a timeout, a 202 and a 503, one request each
C15_Witness ==
    /\ pc = "done"
    /\ Len(Gets) = 3
    /\ \E i, j, k \in 1..3 : 
           IsTimeout(Gets[i].result) /\ Is202(Gets[j].result) /\ Is503(Gets[k].result)

Outcomes ==
    {"root_elem", "BoardGameGeekAPIRetryError", "BoardGameGeekAPINonXMLError",
     "BoardGameGeekTimeoutError", "BoardGameGeekAPIError"}

\* C16: every call that has started terminates, whatever the server does: it
\* ends in exactly one of a returned document, RetryableRequest,
\* NonXMLResponse, TimeoutError or APIError, and after that outcome it issues
\* no request, performs no sleep and does not change its outcome.
C16_EveryCallTerminates ==
    /\ (pc = "loop") ~> (pc = "done")
    /\ [](pc = "done" <=> outcome \in Outcomes)
    /\ [](pc # "done" => outcome = "none")
    /\ [][pc = "done" => UNCHANGED <<pc, outcome, trace>>]_vars

\* a call with retries = 0 has ended, and so has one that used its whole budget
\* on transient signals of the three kinds
C16_Witness ==
    /\ pc = "done"
    /\ outcome \in Outcomes
    /\ Len(Gets) = args.retries
    /\ args.retries = 3
    /\ Is503(Gets[1].result) /\ IsTimeout(Gets[2].result) /\ Is202(Gets[3].result)

RECURSIVE FloatPow(_, _)
FloatPow(f, n) == IF n = 0 THEN Num(1) ELSE FloatMul(FloatPow(f, n - 1), f)

\* C17: a retry caused by a timeout multiplies the per-attempt timeout by 2.5,
\* leaves the retry delay unchanged and performs no sleep; a retry caused by a
\* 202 or a 503 sleeps the current delay, then multiplies the retry delay by
\* 1.5 and leaves the timeout unchanged; hence the k-th sleep of a call lasts
\* retry_delay * 1.5^(k-1), however many timeouts occurred in between.
C17_BackoffFactors ==
    /\ [][(pc = "loop" /\ pc' = "loop" /\ trace' # trace) =>
            LET got == trace'[Len(trace) + 1] IN
            IF IsTimeout(got.result)
            THEN /\ FloatEq(timeout', FloatMul(timeout, <<5, 2>>))
                 /\ retry_delay' = retry_delay
                 /\ trace' = Append(trace, got)
            ELSE /\ Is202(got.result) \/ Is503(got.result)
                 /\ trace' = Append(Append(trace, got), SleepEvent(retry_delay))
                 /\ FloatEq(retry_delay', FloatMul(retry_delay, <<3, 2>>))
                 /\ timeout' = timeout]_vars
    /\ [](\A k \in 1..Len(Sleeps) :
            FloatEq(Sleeps[k].secs,
                    FloatMul(args.retry_delay, FloatPow(<<3, 2>>, k - 1))))

\* two sleeps of one call with a timeout between them
C17_Witness ==
    \E i, j, k \in 1..Len(trace) :
        /\ i < j /\ j < k
        /\ trace[i].ev = "sleep"
        /\ trace[j].ev = "get" /\ IsTimeout(trace[j].result)
        /\ trace[k].ev = "sleep"

\* C18: a failure while performing or reading a request that is neither a
\* transport timeout nor a malformed XML body (a connection error, a response
\* without a content-type header) makes the call raise APIError on that very
\* attempt, whatever budget is left; and a RetryableRequest, NonXMLResponse or
\* TimeoutError raised inside the attempt leaves the call as itself, never as
\* APIError.
C18_OtherFailuresRaiseAPIError ==
    \A i \in 1..Len(trace) :
        trace[i].ev = "get" =>
            LET o == trace[i].result
                other == IsResponse(o) /\ ~Is202(o) /\ ~Is503(o)
                last == i = Len(trace) /\ pc = "done"
            IN  /\ (o.kind = "raise" /\ ~IsTimeout(o))
                      => EndedAt(i, "BoardGameGeekAPIError")
                /\ (other /\ o.content_type = None)
                      => EndedAt(i, "BoardGameGeekAPIError")
                /\ (last /\ Is202(o)) => outcome = "BoardGameGeekAPIRetryError"
                /\ (last /\ IsTimeout(o)) => outcome = "BoardGameGeekTimeoutError"
                /\ (last /\ other /\ o.content_type \notin TextXmlTypes \cup {None})
                      => outcome = "BoardGameGeekAPINonXMLError"

\* a connection error on the second attempt of a call allowed three retries
C18_Witness ==
    /\ args.retries = 3
    /\ Len(Gets) = 2
    /\ Gets[2].result = Raised("ConnectionError")
    /\ EndedAt(Len(trace), "BoardGameGeekAPIError")

(***************************************************************************)
(* Further properties of Collection, checked under SpecColl.               *)
(***************************************************************************)
\* C19: a Collection is isolated from the mapping it was constructed from: an
\* add_game on a Collection changes neither the caller's mapping nor the
\* caller's items list, and it changes neither the len() nor the iteration of
\* any other Collection constructed from the same mapping.
C19_IsolatedFromCallerMapping ==
    [][\A c \in DOMAIN colls :
          appends'[c] # appends[c] =>
              /\ data' = data
              /\ "items" \in DOMAIN data =>
                    heap'[IndexOf(data["items"])] = heap[IndexOf(data["items"])]
              /\ \A d \in DOMAIN colls \ {c} :
                    /\ LenIn(heap', colls', d) = LenIn(heap, colls, d)
                    /\ Wrapped(heap', colls', d) = Wrapped(heap, colls, d)
      ]_vars

\* C20: iteration is lazy with respect to appends: asked for its next entity,
\* an iteration that is not exhausted yields the record after the ones it has
\* yielded, whenever that record was appended, and is exhausted only when the
\* list holds no further record now; once exhausted it yields nothing more,
\* whatever is appended afterwards. So what an iteration has yielded is always
\* the first records of the list, in order, each once.
C20_IterationSeesAppendsUntilExhausted ==
    /\ [][\A g \in DOMAIN gens :
             /\ gens[g].state = "done" => gens'[g] = gens[g]
             /\ gens'[g] # gens[g] =>
                   LET c == gens[g].coll
                       n == gens[g].index
                   IN  IF n < len(c)
                         THEN /\ gens'[g].state = "running"
                              /\ gens'[g].index = n + 1
                              /\ gens'[g].yielded =
                                    Append(gens[g].yielded, Wrapped(heap, colls, c)[n + 1])
                         ELSE /\ gens'[g].state = "done"
                              /\ gens'[g].yielded = gens[g].yielded
         ]_vars
    /\ [](\A g \in DOMAIN gens :
             gens[g].yielded =
                 SubSeq(Wrapped(heap, colls, gens[g].coll), 1, gens[g].index))

\* Both records of the Collection were appended. The first iteration yielded
\* the first and was exhausted before the second was appended; a later
\* iteration yielded both.
C20_Witness ==
    /\ Len(gens) = 2
    /\ gens[1].coll = gens[2].coll
    /\ built[gens[1].coll] = 0
    /\ len(gens[1].coll) = 2
    /\ gens[1].state = "done" /\ Len(gens[1].yielded) = 1
    /\ gens[2].state = "done" /\ gens[2].yielded = Wrapped(heap, colls, gens[2].coll)

====
